---- MODULE Spec2Model ----
(***************************************************************************)
(* Canvassing workflow of the procurement front-end                        *)
(* (src/app/(tabs)/CanvassingModule.tsx).  The file holds two variants of  *)
(* the module: the React Native one (lines 1-1383, props prRecord and      *)
(* onComplete, no stage navigation) and the web one (lines 1385-2934,      *)
(* sidebar navigation, no payload).  Both are modelled; `variant` says     *)
(* which one a behaviour runs.                                             *)
(*                                                                         *)
(* Strings the code parses or trims (price strings, the BAC canvass        *)
(* number) are sequences of one-character strings, so that parseFloat and  *)
(* trim are computed and not assumed.  The alphabet has no decimal point:  *)
(* every price is an integer.  Supplier fields the code never reads        *)
(* (address, contactNo, tinNo, deliveryDays, remarks) and the free-text    *)
(* notes are left out.                                                     *)
(*                                                                         *)
(* The purchase-request list (src/app/procurement/PRModule.tsx and its     *)
(* twin ProcurementContent), the create modal (PurchaseRequestModal) and   *)
(* the Supabase helpers (lib/supabase.ts) are modelled next to it: `host`  *)
(* says which list component runs.  A PR number `${year}-PR-${seq}` is     *)
(* its sequence number; the tables of the store are part of the state and  *)
(* every call to them may succeed or fail.                                 *)
(***************************************************************************)
EXTENDS Integers, Sequences, FiniteSets, TLC

VARIABLES
    variant,      \* "native" or "web": which CanvassingModule runs
    pr,           \* the purchase request the session was opened with
    stage,        \* useState<CanvassStage>
    completed,    \* useState<Set<CanvassStage>>
    bacMembers,   \* BAC resolution roster
    divisions,    \* division assignments (native) / canvassers (web)
    suppliers,    \* supplier quotes
    bacNo,        \* Step6PRReceived local state
    receivedBy,   \* Step6PRReceived local state
    resNo,        \* Step7BACResolution local state
    modeOfProc,   \* Step7BACResolution local state
    nextId,       \* Step9CollectCanvass useRef counter
    aaaNo,        \* Step10AAA local state
    aaaMembers,   \* Step10AAA local state: abstract signature roster
    abstract,     \* what Step10AAA computes when it renders
    entered,      \* history: the canvass number Step 6 was completed with
    emitted,      \* payloads handed to onComplete, oldest first
    host,         \* "PRModule" or "ProcurementContent": which list component runs
    records,      \* useState<PRRecord[]>: the local list, newest first
    saving,       \* useState(false): the saving flag
    alerts,       \* number of Alert.alert notices shown
    prModalOpen,  \* useState(false): the create modal is shown
    generatedPRNo,\* useState(""): the number handed to the modal, 0 for ""
    form,         \* PurchaseRequestModal: useState<FormState>
    store,        \* the tables purchase_requests and purchase_request_items
    calls,        \* the handlePRSubmit invocations, oldest first, with their position
    writes,       \* history: the inserts sent to the store, oldest first
    fetching,     \* the fetchPurchaseRequests call of the mount effect is pending
    canvassingPR, \* what handleStartCanvassing passed to the Canvassing screen
    page,         \* useState(1): the page of the list shown
    searchQuery,  \* useState(""): the text of the search bar
    sectionFilter \* useState("All"): the section chip chosen

\* the state of the canvassing module
canvassVars == <<variant, pr, stage, completed, bacMembers, divisions, suppliers,
                 bacNo, receivedBy, resNo, modeOfProc, nextId, aaaNo, aaaMembers,
                 abstract, entered, emitted>>

\* the state of the purchase-request list, its modal and the store
prVars == <<host, records, saving, alerts, prModalOpen, generatedPRNo, form,
            store, calls, writes, fetching, canvassingPR, page, searchQuery,
            sectionFilter>>

\* the page, the search text and the section chip of the list
listVars == <<page, searchQuery, sectionFilter>>

vars == <<canvassVars, prVars>>

(***************************************************************************)
(* Bounds of the model.                                                    *)
(***************************************************************************)
\* roster size (initBACMembers returns 4 members)
NumMembers == 2
\* number of divisions (DIVISIONS has 9 entries, the web variant uses 6)
NumDivisions == 2
\* highest supplier id the add-supplier counter hands out
MaxId == 2
\* number of payloads recorded
MaxEmit == 2
\* number of quotes in the inputs of the award calculator
CalcQuotes == 2
\* number of purchase requests submitted in a behaviour
MaxSubmits == 2
\* number of line items in the forms the modal is checked on
FormItems == 2

\* requests in the store when the list screen opens
MaxRows == 9

(***************************************************************************)
(* Constants of the program.                                               *)
(***************************************************************************)
STAGE_ORDER ==
    <<"pr_received", "bac_resolution", "release_canvass", "collect_canvass",
      "aaa_preparation">>

Stages == {STAGE_ORDER[i] : i \in 1..Len(STAGE_ORDER)}

\* STAGE_ORDER.indexOf(s), 1-based
IndexOf(s) == CHOOSE i \in 1..Len(STAGE_ORDER) : STAGE_ORDER[i] = s

TODAY == "today"
NOW == "now"

Min(a, b) == IF a < b THEN a ELSE b

(***************************************************************************)
(* Strings as character sequences: trim and parseFloat.                    *)
(***************************************************************************)
Digits == {"0", "1", "2", "3", "4", "5", "6", "7", "8", "9"}

DigitVal(c) ==
    CASE c = "0" -> 0 [] c = "1" -> 1 [] c = "2" -> 2 [] c = "3" -> 3
      [] c = "4" -> 4 [] c = "5" -> 5 [] c = "6" -> 6 [] c = "7" -> 7
      [] c = "8" -> 8 [] c = "9" -> 9

IsSpace(c) == c = " "

RECURSIVE TrimLeft(_)
TrimLeft(s) ==
    IF s # <<>> /\ IsSpace(Head(s)) THEN TrimLeft(Tail(s)) ELSE s

RECURSIVE TrimRight(_)
TrimRight(s) ==
    IF s # <<>> /\ IsSpace(s[Len(s)]) THEN TrimRight(SubSeq(s, 1, Len(s) - 1)) ELSE s

\* String.prototype.trim
Trim(s) == TrimRight(TrimLeft(s))

\* the longest prefix of s made of digits, as [n: number of digits, val]
RECURSIVE DigitPrefix(_, _, _)
DigitPrefix(s, n, acc) ==
    IF s # <<>> /\ Head(s) \in Digits
    THEN DigitPrefix(Tail(s), n + 1, acc * 10 + DigitVal(Head(s)))
    ELSE [n |-> n, val |-> acc]

NaN == [nan |-> TRUE, val |-> 0]
Num(v) == [nan |-> FALSE, val |-> v]

\* parseFloat: leading white space is skipped, an optional sign, then the
\* longest run of digits; NaN when there is no digit.  Trailing characters
\* are ignored.
ParseFloat(s) ==
    LET t    == TrimLeft(s)
        neg  == t # <<>> /\ Head(t) = "-"
        sgn  == t # <<>> /\ Head(t) \in {"-", "+"}
        body == IF sgn THEN Tail(t) ELSE t
        d    == DigitPrefix(body, 0, 0)
    IN  IF d.n = 0 THEN NaN
        ELSE Num(IF neg THEN 0 - d.val ELSE d.val)

\* x || 0 for a number x: NaN and 0 are falsy
OrZero(x) == IF x.nan THEN 0 ELSE x.val

(***************************************************************************)
(* Award calculator (Step10AAA): per-item lowest price, per-supplier grand *)
(* total, overall lowest supplier.  A supplier is referred to by its       *)
(* position in the quote list, which stands for the object reference the   *)
(* code holds.                                                             *)
(***************************************************************************)
NoPrices == [i \in {} |-> <<>>]

\* sp.unitPrices[itemId] || "0": a missing key and the empty string are falsy
RawPrice(sp, itemId) ==
    IF itemId \in DOMAIN sp.unitPrices /\ sp.unitPrices[itemId] # <<>>
    THEN sp.unitPrices[itemId]
    ELSE <<"0">>

\* parseFloat(sp.unitPrices[itemId] || "0") || 0
PriceOf(sp, itemId) == OrZero(ParseFloat(RawPrice(sp, itemId)))

NoBest == [found |-> FALSE, idx |-> 0, price |-> 0]

\* mutant of BetterPrice: a later supplier takes an exact tie
BetterPriceTieLast(p, best) == p > 0 /\ (~best.found \/ p <= best.price)

\* p > 0 && (!best || p < best.price)
BetterPrice(p, best) == p > 0 /\ (~best.found \/ p < best.price)

\* for (const sp of suppliers) { ... } of lowestForItem, from position k on
RECURSIVE LowestLoop(_, _, _, _)
LowestLoop(supps, itemId, k, best) ==
    IF k > Len(supps) THEN best
    ELSE LET p == PriceOf(supps[k], itemId)
         IN  LowestLoop(supps, itemId, k + 1,
                        IF BetterPrice(p, best)
                        THEN [found |-> TRUE, idx |-> k, price |-> p]
                        ELSE best)

\* native: best holds the supplier object itself
lowestForItem(supps, itemId) == LowestLoop(supps, itemId, 1, NoBest)

\* suppliers.find((s) => s.id === suppId): the first supplier with that id
FindById(supps, suppId) ==
    LET hits == {k \in 1..Len(supps) : supps[k].id = suppId}
    IN  IF hits = {} THEN 0 ELSE CHOOSE k \in hits : \A j \in hits : k <= j

\* web: best holds the supplier's id, and the row looks the supplier up by id
computeWinner(supps, itemId) ==
    LET best == LowestLoop(supps, itemId, 1, NoBest)
    IN  IF best.found
        THEN [best EXCEPT !.idx = FindById(supps, supps[best.idx].id)]
        ELSE best

\* mutant of LineAmount: the quantity is left out of the line amount
LineAmountNoQty(sp, item) == PriceOf(sp, item.id)

\* p * item.qty, one term of a supplier's grand total
LineAmount(sp, item) == PriceOf(sp, item.id) * item.qty

\* pr.items.reduce((s, item) => s + p * item.qty, 0), from position k on
RECURSIVE TotalLoop(_, _, _, _)
TotalLoop(sp, items, k, s) ==
    IF k > Len(items) THEN s
    ELSE TotalLoop(sp, items, k + 1, s + LineAmount(sp, items[k]))

supplierTotals(items, supps) ==
    [k \in 1..Len(supps) |-> [idx |-> k, total |-> TotalLoop(supps[k], items, 1, 0)]]

NoAward == [found |-> FALSE, idx |-> 0, total |-> 0]

\* mutant of BetterTotal: the highest positive total is kept
BetterTotalHighest(cur, best) ==
    cur.total > 0 /\ (~best.found \/ cur.total > best.total)

\* cur.total > 0 && (!best || cur.total < best.total)
BetterTotal(cur, best) ==
    cur.total > 0 /\ (~best.found \/ cur.total < best.total)

\* supplierTotals.reduce((best, cur) => ... ? cur : best, null), from position k on
RECURSIVE AwardLoop(_, _, _)
AwardLoop(totals, k, best) ==
    IF k > Len(totals) THEN best
    ELSE AwardLoop(totals, k + 1,
                   IF BetterTotal(totals[k], best)
                   THEN [found |-> TRUE, idx |-> totals[k].idx, total |-> totals[k].total]
                   ELSE best)

lowestSupplier(totals) == AwardLoop(totals, 1, NoAward)

NoAbstract == [rendered |-> FALSE]

\* everything Step10AAA derives from (pr.items, suppliers) when it renders
RenderAbstract(v, items, supps) ==
    LET totals == supplierTotals(items, supps)
    IN  [rendered |-> TRUE,
         winners  |-> [k \in 1..Len(items) |->
                          IF v = "native" THEN lowestForItem(supps, items[k].id)
                          ELSE computeWinner(supps, items[k].id)],
         totals   |-> totals,
         lowest   |-> lowestSupplier(totals)]

(***************************************************************************)
(* Inputs.                                                                 *)
(***************************************************************************)
Chars(n) ==
    CASE n = 42 -> <<"P", "R", "-", "0", "0", "4", "2">>
      [] n = 7  -> <<"P", "R", "-", "0", "0", "0", "7">>

\* MOCK_PR / PLACEHOLDER_PR, cut down to its first line item
MOCK_PR == [prNo |-> Chars(42), items |-> <<[id |-> 1, qty |-> 2]>>]

\* purchase requests a caller may pass as prRecord
PRInputs ==
    {MOCK_PR,
     [prNo |-> Chars(7), items |-> <<[id |-> 1, qty |-> 3]>>]}

ItemIds(p) == {p.items[k].id : k \in 1..Len(p.items)}

\* what a price field may hold: blank, zero, not a number, negative, positive
PriceStrings ==
    {<<>>, <<"0">>, <<"a", "b", "c">>, <<"-", "3">>, <<"5">>, <<"1", "0">>}

\* what the price fields of Step 9 deliver: a decimal pad (native) and an
\* <input type="number"> (web) hand over no letters
TypedPrices == {<<>>, <<"0">>, <<"-", "3">>, <<"5">>, <<"1", "0">>}

Names == {"", "A"}

BacNoInputs == {<<>>, <<" ">>, <<"B", "1">>}

RECEIVERS == {"Yvonne M.", "Mariel T."}

MODES_OF_PROCUREMENT == {"Small Value Procurement (SVP)", "Shopping"}

ResNoInputs == {<<"R", "2">>}

AaaNoInputs == {<<"A", "2">>}

\* s.slice(-4)
Slice4(s) == IF Len(s) <= 4 THEN s ELSE SubSeq(s, Len(s) - 3, Len(s))

\* `${year}-RES-${pr.prNo.slice(-4)}`, the year left out
DefaultResNo(p) == <<"R", "E", "S", "-">> \o Slice4(p.prNo)

\* `${year}-AAA-${pr.prNo.slice(-4)}`, the year left out
DefaultAaaNo(p) == <<"A", "A", "A", "-">> \o Slice4(p.prNo)

(***************************************************************************)
(* Initial values of the root component's state.                           *)
(***************************************************************************)
initBACMembers == [i \in 1..NumMembers |-> [signed |-> FALSE, signedAt |-> ""]]

initDivisions ==
    [i \in 1..NumDivisions |->
        [status |-> "pending", releaseDate |-> "", returnDate |-> ""]]

initSuppliers == <<[id |-> 1, supplierName |-> "", unitPrices |-> NoPrices]>>

NothingEntered == [bac_no |-> <<>>]

(***************************************************************************)
(* Derived predicates of the steps.                                        *)
(***************************************************************************)
\* mutant of allSigned: one signature is enough
allSignedSome(members) == \E i \in DOMAIN members : members[i].signed

\* members.every((m) => m.signed)
allSigned(members) == \A i \in DOMAIN members : members[i].signed

\* divisions.every((d) => d.status !== "pending")
allReleased(divs) == \A i \in DOMAIN divs : divs[i].status # "pending"

\* mutant of hasQuotes: the supplier name is not looked at
hasQuotesAnyName(supps) ==
    \E k \in 1..Len(supps) : Cardinality(DOMAIN supps[k].unitPrices) > 0

\* suppliers.some((sp) => sp.supplierName && Object.keys(sp.unitPrices).length > 0)
hasQuotes(supps) ==
    \E k \in 1..Len(supps) :
        /\ supps[k].supplierName # ""
        /\ Cardinality(DOMAIN supps[k].unitPrices) > 0

\* mutant of Sign: the entries before idx are signed with it
SignThrough(members, idx) ==
    [k \in DOMAIN members |->
        IF k <= idx THEN [members[k] EXCEPT !.signed = TRUE, !.signedAt = NOW]
        ELSE members[k]]

\* m.map((mb, i) => i === idx ? { ...mb, signed: true, signedAt: now } : mb)
Sign(members, idx) ==
    [i \in DOMAIN members |->
        IF i = idx THEN [members[i] EXCEPT !.signed = TRUE, !.signedAt = NOW]
        ELSE members[i]]

(***************************************************************************)
(* Mounting a step: the state a step component holds is created when the   *)
(* stage is shown and is gone when another stage is shown.                 *)
(***************************************************************************)
EnterStage(s) ==
    /\ stage' = s
    /\ bacNo' = <<>>
    /\ receivedBy' = IF s = "pr_received" THEN "Yvonne M." ELSE ""
    /\ resNo' = IF s = "bac_resolution" THEN DefaultResNo(pr) ELSE <<>>
    /\ modeOfProc' =
          IF s = "bac_resolution" THEN "Small Value Procurement (SVP)" ELSE ""
    /\ nextId' = IF s = "collect_canvass" THEN Len(suppliers) + 1 ELSE 0
    /\ aaaNo' = IF s = "aaa_preparation" THEN DefaultAaaNo(pr) ELSE <<>>
    /\ aaaMembers' =
          IF s = "aaa_preparation"
          THEN [i \in DOMAIN bacMembers |->
                   [bacMembers[i] EXCEPT !.signed = FALSE, !.signedAt = ""]]
          ELSE <<>>
    /\ abstract' =
          IF s = "aaa_preparation"
          THEN RenderAbstract(variant, pr.items, suppliers)
          ELSE NoAbstract

\* the step-local state is left as it is
StepStateUnchanged ==
    UNCHANGED <<bacNo, receivedBy, resNo, modeOfProc, nextId, aaaNo, aaaMembers, abstract>>

\* the canvass number Step 6 held when it was completed; kept for the native
\* variant, the one that builds a payload
Record(current) ==
    IF variant = "native" /\ current = "pr_received"
    THEN [entered EXCEPT !.bac_no = bacNo]
    ELSE entered

\* mutant of NextStageIndex: the stage after the next one
NextStageIndexSkip(idx) == Min(idx + 2, Len(STAGE_ORDER))

\* STAGE_ORDER[idx + 1]
NextStageIndex(idx) == idx + 1

\* completeStage(current)
completeStage(current) ==
    /\ completed' = completed \cup {current}
    /\ entered' = Record(current)
    /\ IF IndexOf(current) < Len(STAGE_ORDER)
       THEN EnterStage(STAGE_ORDER[NextStageIndex(IndexOf(current))])
       ELSE stage' = stage /\ StepStateUnchanged

(***************************************************************************)
(* The purchase-request list at rest: what its state is while a behaviour  *)
(* runs the canvassing module only.                                        *)
(***************************************************************************)
\* emptyForm()
emptyForm ==
    [officeSection |-> "", purpose |-> "", items |-> <<>>,
     budgetNumber |-> "", papCode |-> "", proposalFileName |-> ""]

\* both tables without a row
EmptyStore == [purchase_requests |-> <<>>, purchase_request_items |-> {}]

\* handleStartCanvassing was not called
NoCanvassingPR == [set |-> FALSE]

PRIdle ==
    /\ host = "PRModule"
    /\ records = <<>>
    /\ saving = FALSE
    /\ alerts = 0
    /\ prModalOpen = FALSE
    /\ generatedPRNo = 0
    /\ form = emptyForm
    /\ store = EmptyStore
    /\ calls = <<>>
    /\ writes = <<>>
    /\ fetching = FALSE
    /\ canvassingPR = NoCanvassingPR
    /\ page = 1
    /\ searchQuery = ""
    /\ sectionFilter = "All"

Init ==
    /\ PRIdle
    /\ variant \in {"native", "web"}
    /\ pr \in (IF variant = "native" THEN PRInputs ELSE {MOCK_PR})
    /\ stage = "pr_received"
    /\ completed = {}
    /\ bacMembers = initBACMembers
    /\ divisions = initDivisions
    /\ suppliers = initSuppliers
    /\ bacNo = <<>>
    /\ receivedBy = "Yvonne M."
    /\ resNo = <<>>
    /\ modeOfProc = ""
    /\ nextId = 0
    /\ aaaNo = <<>>
    /\ aaaMembers = <<>>
    /\ abstract = NoAbstract
    /\ entered = NothingEntered
    /\ emitted = <<>>

(***************************************************************************)
(* Step 6: PR received.                                                    *)
(***************************************************************************)
SetBacNo(v) ==
    /\ stage = "pr_received"
    /\ bacNo' = v
    /\ UNCHANGED <<prVars, variant, pr, stage, completed, bacMembers, divisions, suppliers,
                   receivedBy, resNo, modeOfProc, nextId, aaaNo, aaaMembers,
                   abstract, entered, emitted>>

SetReceivedBy(v) ==
    /\ stage = "pr_received"
    /\ receivedBy' = v
    /\ UNCHANGED <<prVars, variant, pr, stage, completed, bacMembers, divisions, suppliers,
                   bacNo, resNo, modeOfProc, nextId, aaaNo, aaaMembers,
                   abstract, entered, emitted>>

\* disabled={!bacNo.trim()}
CanAcknowledge == Trim(bacNo) # <<>>

\* "Acknowledge & Proceed"
Acknowledge ==
    /\ stage = "pr_received"
    /\ CanAcknowledge
    /\ completeStage("pr_received")
    /\ UNCHANGED <<prVars, variant, pr, bacMembers, divisions, suppliers, emitted>>

(***************************************************************************)
(* Step 7: BAC resolution.                                                 *)
(***************************************************************************)
SetResNo(v) ==
    /\ stage = "bac_resolution"
    /\ resNo' = v
    /\ UNCHANGED <<prVars, variant, pr, stage, completed, bacMembers, divisions, suppliers,
                   bacNo, receivedBy, modeOfProc, nextId, aaaNo, aaaMembers,
                   abstract, entered, emitted>>

SetModeOfProc(v) ==
    /\ stage = "bac_resolution"
    /\ modeOfProc' = v
    /\ UNCHANGED <<prVars, variant, pr, stage, completed, bacMembers, divisions, suppliers,
                   bacNo, receivedBy, resNo, nextId, aaaNo, aaaMembers,
                   abstract, entered, emitted>>

\* the Sign button of a roster row is rendered while the member is unsigned
SignBAC(idx) ==
    /\ stage = "bac_resolution"
    /\ ~bacMembers[idx].signed
    /\ bacMembers' = Sign(bacMembers, idx)
    /\ UNCHANGED <<prVars, variant, pr, stage, completed, divisions, suppliers,
                   bacNo, receivedBy, resNo, modeOfProc, nextId, aaaNo, aaaMembers,
                   abstract, entered, emitted>>

\* mutant of CanFinalizeResolution: the button is never disabled
CanFinalizeAlways == TRUE

\* disabled={!allSigned}
CanFinalizeResolution == allSigned(bacMembers)

\* "Resolution Finalized -> Release Canvass"
FinalizeResolution ==
    /\ stage = "bac_resolution"
    /\ CanFinalizeResolution
    /\ completeStage("bac_resolution")
    /\ UNCHANGED <<prVars, variant, pr, bacMembers, divisions, suppliers, emitted>>

(***************************************************************************)
(* Step 8: release canvass.                                                *)
(***************************************************************************)
\* mutant of ReleaseShown: the button is shown whatever the status
ReleaseShownAlways(d) == TRUE

\* native: DivisionRow shows its button unless the division is returned;
\* web: the Release button is shown for a pending division only
ReleaseShown(d) ==
    IF variant = "native" THEN d.status # "returned" ELSE d.status = "pending"

\* mutant of releaseOne: the release date is not stamped
releaseOneNoStamp(divs, idx) ==
    [i \in DOMAIN divs |->
        IF i = idx THEN [divs[i] EXCEPT !.status = "released"] ELSE divs[i]]

\* d.map((div, i) => i === idx ? { ...div, status: "released", releaseDate: TODAY } : div)
releaseOne(divs, idx) ==
    [i \in DOMAIN divs |->
        IF i = idx
        THEN [divs[i] EXCEPT !.status = "released", !.releaseDate = TODAY]
        ELSE divs[i]]

ReleaseOne(idx) ==
    /\ stage = "release_canvass"
    /\ ReleaseShown(divisions[idx])
    /\ divisions' = releaseOne(divisions, idx)
    /\ UNCHANGED <<prVars, variant, pr, stage, completed, bacMembers, suppliers,
                   bacNo, receivedBy, resNo, modeOfProc, nextId, aaaNo, aaaMembers,
                   abstract, entered, emitted>>

\* native releases the pending divisions, web releases every division
releaseAll(v, divs) ==
    [i \in DOMAIN divs |->
        IF v = "web" \/ divs[i].status = "pending"
        THEN [divs[i] EXCEPT !.status = "released", !.releaseDate = TODAY]
        ELSE divs[i]]

\* the Release All button is rendered under {!allReleased && (...)}
ReleaseAll ==
    /\ stage = "release_canvass"
    /\ ~allReleased(divisions)
    /\ divisions' = releaseAll(variant, divisions)
    /\ UNCHANGED <<prVars, variant, pr, stage, completed, bacMembers, suppliers,
                   bacNo, receivedBy, resNo, modeOfProc, nextId, aaaNo, aaaMembers,
                   abstract, entered, emitted>>

\* mutant of CanCompleteRelease: one released division is enough
CanCompleteReleaseAny == \E i \in DOMAIN divisions : divisions[i].status # "pending"

\* disabled={!allReleased}
CanCompleteRelease == allReleased(divisions)

\* "All Released -> Await Returns"
CompleteRelease ==
    /\ stage = "release_canvass"
    /\ CanCompleteRelease
    /\ completeStage("release_canvass")
    /\ UNCHANGED <<prVars, variant, pr, bacMembers, divisions, suppliers, emitted>>

(***************************************************************************)
(* Step 9: collect canvass.                                                *)
(***************************************************************************)
\* mutant of markReturned: the return date is not stamped
markReturnedNoStamp(divs, idx) ==
    [i \in DOMAIN divs |->
        IF i = idx THEN [divs[i] EXCEPT !.status = "returned"] ELSE divs[i]]

\* d.map((div, i) => i === idx ? { ...div, status: "returned", returnDate: TODAY } : div)
markReturned(divs, idx) ==
    [i \in DOMAIN divs |->
        IF i = idx
        THEN [divs[i] EXCEPT !.status = "returned", !.returnDate = TODAY]
        ELSE divs[i]]

\* the Receive button is shown unless the division is returned
MarkReturned(idx) ==
    /\ stage = "collect_canvass"
    /\ divisions[idx].status # "returned"
    /\ divisions' = markReturned(divisions, idx)
    /\ UNCHANGED <<prVars, variant, pr, stage, completed, bacMembers, suppliers,
                   bacNo, receivedBy, resNo, modeOfProc, nextId, aaaNo, aaaMembers,
                   abstract, entered, emitted>>

\* const id = nextId.current++; the counter is capped at MaxId
AddSupplier ==
    /\ stage = "collect_canvass"
    /\ nextId <= MaxId
    /\ suppliers' = Append(suppliers,
                           [id |-> nextId, supplierName |-> "", unitPrices |-> NoPrices])
    /\ nextId' = nextId + 1
    /\ UNCHANGED <<prVars, variant, pr, stage, completed, bacMembers, divisions,
                   bacNo, receivedBy, resNo, modeOfProc, aaaNo, aaaMembers,
                   abstract, entered, emitted>>

\* s.filter((sp) => sp.id !== id)
RemoveSupplier(id) ==
    /\ stage = "collect_canvass"
    /\ \E k \in 1..Len(suppliers) : suppliers[k].id = id
    /\ suppliers' = SelectSeq(suppliers, LAMBDA sp : sp.id # id)
    /\ UNCHANGED <<prVars, variant, pr, stage, completed, bacMembers, divisions,
                   bacNo, receivedBy, resNo, modeOfProc, nextId, aaaNo, aaaMembers,
                   abstract, entered, emitted>>

\* updateSupplier(id, "supplierName", value)
UpdateSupplierName(id, v) ==
    /\ stage = "collect_canvass"
    /\ \E k \in 1..Len(suppliers) : suppliers[k].id = id
    /\ suppliers' = [k \in 1..Len(suppliers) |->
                        IF suppliers[k].id = id
                        THEN [suppliers[k] EXCEPT !.supplierName = v]
                        ELSE suppliers[k]]
    /\ UNCHANGED <<prVars, variant, pr, stage, completed, bacMembers, divisions,
                   bacNo, receivedBy, resNo, modeOfProc, nextId, aaaNo, aaaMembers,
                   abstract, entered, emitted>>

\* { ...sp.unitPrices, [itemId]: val }
WithPrice(prices, itemId, val) ==
    [i \in DOMAIN prices \cup {itemId} |-> IF i = itemId THEN val ELSE prices[i]]

\* updatePrice(suppId, itemId, val)
UpdatePrice(id, itemId, val) ==
    /\ stage = "collect_canvass"
    /\ \E k \in 1..Len(suppliers) : suppliers[k].id = id
    /\ suppliers' = [k \in 1..Len(suppliers) |->
                        IF suppliers[k].id = id
                        THEN [suppliers[k] EXCEPT
                                 !.unitPrices = WithPrice(@, itemId, val)]
                        ELSE suppliers[k]]
    /\ UNCHANGED <<prVars, variant, pr, stage, completed, bacMembers, divisions,
                   bacNo, receivedBy, resNo, modeOfProc, nextId, aaaNo, aaaMembers,
                   abstract, entered, emitted>>

\* disabled={!hasQuotes}
CanEncodeComplete == hasQuotes(suppliers)

\* "Encode Complete -> Prepare AAA"
EncodeComplete ==
    /\ stage = "collect_canvass"
    /\ CanEncodeComplete
    /\ completeStage("collect_canvass")
    /\ UNCHANGED <<prVars, variant, pr, bacMembers, divisions, suppliers, emitted>>

(***************************************************************************)
(* Step 10: abstract of awards.                                            *)
(***************************************************************************)
SetAaaNo(v) ==
    /\ stage = "aaa_preparation"
    /\ aaaNo' = v
    /\ UNCHANGED <<prVars, variant, pr, stage, completed, bacMembers, divisions, suppliers,
                   bacNo, receivedBy, resNo, modeOfProc, nextId, aaaMembers,
                   abstract, entered, emitted>>

SignAAA(idx) ==
    /\ stage = "aaa_preparation"
    /\ ~aaaMembers[idx].signed
    /\ aaaMembers' = Sign(aaaMembers, idx)
    /\ UNCHANGED <<prVars, variant, pr, stage, completed, bacMembers, divisions, suppliers,
                   bacNo, receivedBy, resNo, modeOfProc, nextId, aaaNo,
                   abstract, entered, emitted>>

\* native: {allSigned && lowestSupplier && (...)}; web: {allSigned && (...)}
CanForward ==
    /\ stage = "aaa_preparation"
    /\ allSigned(aaaMembers)
    /\ variant = "native" => abstract.lowest.found

\* sessionRef.current: useRef({ pr_no: pr.prNo }), never written afterwards
sessionRef == [pr_no |-> pr.prNo]

\* sessionRef.current.<field> ?? ""
FromSession(field, empty) ==
    IF field \in DOMAIN sessionRef THEN sessionRef[field] ELSE empty

\* mutant of Payload: the award is taken from the first quote of the list
PayloadFirstQuote ==
    [pr_no               |-> pr.prNo,
     bac_no              |-> FromSession("bac_no", <<>>),
     resolution_no       |-> FromSession("resolution_no", <<>>),
     mode_of_procurement |-> FromSession("mode_of_procurement", ""),
     aaa_no              |-> FromSession("aaa_no", <<>>),
     awarded_supplier    |-> suppliers[1].supplierName,
     awarded_total       |-> abstract.totals[1].total,
     suppliers           |-> suppliers,
     bac_members         |-> bacMembers]

\* the payload handleFinalComplete builds from what Step10AAA passes it
Payload ==
    [pr_no               |-> pr.prNo,
     bac_no              |-> FromSession("bac_no", <<>>),
     resolution_no       |-> FromSession("resolution_no", <<>>),
     mode_of_procurement |-> FromSession("mode_of_procurement", ""),
     aaa_no              |-> FromSession("aaa_no", <<>>),
     awarded_supplier    |-> suppliers[abstract.lowest.idx].supplierName,
     awarded_total       |-> abstract.lowest.total,
     suppliers           |-> suppliers,
     bac_members         |-> bacMembers]

\* native "Forward to Supply Section": handleFinalComplete
HandleFinalComplete ==
    /\ variant = "native"
    /\ CanForward
    /\ Len(emitted) < MaxEmit
    /\ completeStage("aaa_preparation")
    /\ emitted' = Append(emitted, Payload)
    /\ UNCHANGED <<prVars, variant, pr, bacMembers, divisions, suppliers>>

\* web "Forward to Supply Section": completeStage("aaa_preparation")
ForwardWeb ==
    /\ variant = "web"
    /\ CanForward
    /\ completeStage("aaa_preparation")
    /\ UNCHANGED <<prVars, variant, pr, bacMembers, divisions, suppliers, emitted>>

\* mutant of Navigate: opening a stage starts the roster over
NavigateResetting(s) ==
    /\ variant = "web"
    /\ s \in completed \/ s = stage
    /\ EnterStage(s)
    /\ bacMembers' = initBACMembers
    /\ UNCHANGED <<prVars, variant, pr, completed, divisions, suppliers, entered, emitted>>

(***************************************************************************)
(* Web sidebar: a stage that is done or active can be opened.              *)
(***************************************************************************)
Navigate(s) ==
    /\ variant = "web"
    /\ s \in completed \/ s = stage
    /\ IF s = stage
       THEN stage' = stage /\ StepStateUnchanged
       ELSE EnterStage(s)
    /\ UNCHANGED <<prVars, variant, pr, completed, bacMembers, divisions, suppliers,
                   entered, emitted>>

\* the steps both variants have
StepAction ==
    \/ \E v \in BacNoInputs : SetBacNo(v)
    \/ \E v \in RECEIVERS : SetReceivedBy(v)
    \/ Acknowledge
    \/ \E v \in ResNoInputs \cup {DefaultResNo(pr)} : SetResNo(v)
    \/ \E v \in MODES_OF_PROCUREMENT : SetModeOfProc(v)
    \/ \E i \in 1..NumMembers : SignBAC(i)
    \/ FinalizeResolution
    \/ \E i \in 1..NumDivisions : ReleaseOne(i)
    \/ ReleaseAll
    \/ CompleteRelease
    \/ \E i \in 1..NumDivisions : MarkReturned(i)
    \/ AddSupplier
    \/ \E id \in 1..MaxId : RemoveSupplier(id)
    \/ \E id \in 1..MaxId, v \in Names : UpdateSupplierName(id, v)
    \/ \E id \in 1..MaxId, it \in ItemIds(pr), v \in TypedPrices : UpdatePrice(id, it, v)
    \/ EncodeComplete
    \/ \E v \in AaaNoInputs \cup {DefaultAaaNo(pr)} : SetAaaNo(v)
    \/ \E i \in 1..NumMembers : SignAAA(i)

Next ==
    \/ StepAction
    \/ HandleFinalComplete
    \/ ForwardWeb
    \/ \E s \in Stages : Navigate(s)

\* a session of either variant
Spec == Init /\ [][Next]_vars

NextNative ==
    \/ StepAction
    \/ HandleFinalComplete

\* a session of the React Native module
InitNative == Init /\ variant = "native"

SpecNative == InitNative /\ [][NextNative]_vars

NextWeb ==
    \/ StepAction
    \/ ForwardWeb
    \/ \E s \in Stages : Navigate(s)

\* a session of the web module
InitWeb == Init /\ variant = "web"

SpecWeb == InitWeb /\ [][NextWeb]_vars

(***************************************************************************)
(* The award calculator on its own: Step10AAA rendered over a purchase     *)
(* request and a quote list drawn from bounded sets.                       *)
(***************************************************************************)
\* purchase requests of one and of two line items
CalcPRs ==
    {MOCK_PR,
     [prNo |-> Chars(7), items |-> <<[id |-> 1, qty |-> 2], [id |-> 2, qty |-> 3]>>]}

\* supplier names by position in the list
NameAt(k) == CASE k = 1 -> "A" [] k = 2 -> "B" [] k = 3 -> "C" [] OTHER -> "D"

\* every price sheet over the items of p: any subset of the items, any strings
PriceSheets(p) == UNION {[D -> PriceStrings] : D \in SUBSET ItemIds(p)}

\* quote lists of n suppliers with ids 1..n
QuoteLists(p, n) ==
    {[k \in 1..n |-> [id |-> k, supplierName |-> NameAt(k), unitPrices |-> f[k]]] :
        f \in [1..n -> PriceSheets(p)]}

InitCalc ==
    /\ PRIdle
    /\ variant \in {"native", "web"}
    /\ pr \in CalcPRs
    /\ \E n \in 0..CalcQuotes : suppliers \in QuoteLists(pr, n)
    /\ stage = "aaa_preparation"
    /\ completed = Stages \ {"aaa_preparation"}
    /\ bacMembers = initBACMembers
    /\ divisions = initDivisions
    /\ bacNo = <<>>
    /\ receivedBy = ""
    /\ resNo = <<>>
    /\ modeOfProc = ""
    /\ nextId = 0
    /\ aaaNo = DefaultAaaNo(pr)
    /\ aaaMembers = initBACMembers
    /\ abstract = NoAbstract
    /\ entered = NothingEntered
    /\ emitted = <<>>

\* Step10AAA renders: winners, totals and the lowest supplier are computed
Render ==
    /\ ~abstract.rendered
    /\ abstract' = RenderAbstract(variant, pr.items, suppliers)
    /\ UNCHANGED <<prVars, variant, pr, stage, completed, bacMembers, divisions, suppliers,
                   bacNo, receivedBy, resNo, modeOfProc, nextId, aaaNo, aaaMembers,
                   entered, emitted>>

NextCalc == Render

SpecCalc == InitCalc /\ [][NextCalc]_vars

(***************************************************************************)
(* The division handlers on their own: Step8ReleaseCanvass and             *)
(* Step9CollectCanvass shown over a division list drawn from a bounded     *)
(* set, so that releaseOne, releaseAll and markReturned are applied to     *)
(* every status, also to those a session does not bring to the step.       *)
(***************************************************************************)
\* the date of a release or a return made on an earlier day
EARLIER == "earlier"

\* a division as DivisionAssignment allows it: pending, released or returned
DivisionInputs ==
    {[status |-> "pending",  releaseDate |-> "",      returnDate |-> ""],
     [status |-> "released", releaseDate |-> EARLIER, returnDate |-> ""],
     [status |-> "returned", releaseDate |-> EARLIER, returnDate |-> EARLIER]}

InitAssign ==
    /\ PRIdle
    /\ variant \in {"native", "web"}
    /\ pr = MOCK_PR
    /\ stage \in {"release_canvass", "collect_canvass"}
    /\ completed = {STAGE_ORDER[k] : k \in 1..(IndexOf(stage) - 1)}
    /\ bacMembers = [i \in 1..NumMembers |-> [signed |-> TRUE, signedAt |-> NOW]]
    /\ divisions \in [1..NumDivisions -> DivisionInputs]
    /\ suppliers = initSuppliers
    /\ bacNo = <<>>
    /\ receivedBy = ""
    /\ resNo = <<>>
    /\ modeOfProc = ""
    /\ nextId = IF stage = "collect_canvass" THEN Len(suppliers) + 1 ELSE 0
    /\ aaaNo = <<>>
    /\ aaaMembers = <<>>
    /\ abstract = NoAbstract
    /\ entered = NothingEntered
    /\ emitted = <<>>

NextAssign ==
    \/ \E i \in 1..NumDivisions : ReleaseOne(i)
    \/ ReleaseAll
    \/ CompleteRelease
    \/ \E i \in 1..NumDivisions : MarkReturned(i)

SpecAssign == InitAssign /\ [][NextAssign]_vars

(***************************************************************************)
(* Purchase-request list, create modal and store.                          *)
(***************************************************************************)
\* canvassing is not running: its state is the one a session starts with
CanvassIdle ==
    /\ variant = "native"
    /\ pr = MOCK_PR
    /\ stage = "pr_received"
    /\ completed = {}
    /\ bacMembers = initBACMembers
    /\ divisions = initDivisions
    /\ suppliers = initSuppliers
    /\ bacNo = <<>>
    /\ receivedBy = "Yvonne M."
    /\ resNo = <<>>
    /\ modeOfProc = ""
    /\ nextId = 0
    /\ aaaNo = <<>>
    /\ aaaMembers = <<>>
    /\ abstract = NoAbstract
    /\ entered = NothingEntered
    /\ emitted = <<>>

\* const HIGH_VALUE_THRESHOLD = 10_000
HIGH_VALUE_THRESHOLD == 10000

\* makeItem(id); the id, which only updateItem and removeItem read, is left out
makeItem == [desc |-> "", qty |-> <<>>, price |-> <<>>]

\* x || "0" for a string x: the empty string is falsy
OrZeroString(x) == IF x = <<>> THEN <<"0">> ELSE x

\* a * b for two numbers, NaN when one of them is NaN
Times(a, b) == IF a.nan \/ b.nan THEN NaN ELSE Num(a.val * b.val)

\* parseFloat(i.qty || "0") * parseFloat(i.price || "0") || 0
LineSubtotal(i) ==
    OrZero(Times(ParseFloat(OrZeroString(i.qty)), ParseFloat(OrZeroString(i.price))))

\* form.items.reduce((s, i) => s + (...), 0)
RECURSIVE TotalReduce(_, _, _)
TotalReduce(items, k, s) ==
    IF k > Len(items) THEN s
    ELSE TotalReduce(items, k + 1, s + LineSubtotal(items[k]))

total(f) == TotalReduce(f.items, 1, 0)

\* mutant of isHighValue: the threshold itself is not high-value
isHighValueAbove(f) == total(f) > HIGH_VALUE_THRESHOLD

\* const isHighValue = total >= HIGH_VALUE_THRESHOLD
isHighValue(f) == total(f) >= HIGH_VALUE_THRESHOLD

\* i.desc && i.qty && i.price
ItemFilled(i) == i.desc # "" /\ i.qty # <<>> /\ i.price # <<>>

\* form.items.some((i) => i.desc && i.qty && i.price)
hasItems(f) == \E k \in 1..Len(f.items) : ItemFilled(f.items[k])

\* !isHighValue || (!!form.budgetNumber && !!form.papCode && !!form.proposalFileName)
hvComplete(f) ==
    ~isHighValue(f) \/ (f.budgetNumber # "" /\ f.papCode # "" /\ f.proposalFileName # "")

\* mutant of isValid: the high-value fields are not asked for
isValidStandard(f) == hasItems(f) /\ f.officeSection # "" /\ f.purpose # ""

\* hasItems && hvComplete && !!form.officeSection && !!form.purpose
isValid(f) == hasItems(f) /\ hvComplete(f) /\ f.officeSection # "" /\ f.purpose # ""

\* form.items.filter((i) => i.desc && i.qty && i.price)
RECURSIVE FilledItems(_)
FilledItems(items) ==
    IF items = <<>> THEN <<>>
    ELSE IF ItemFilled(Head(items))
         THEN <<Head(items)>> \o FilledItems(Tail(items))
         ELSE FilledItems(Tail(items))

\* { quantity: parseFloat(i.qty), unit_price: parseFloat(i.price), subtotal: ... }
ItemRow(i) ==
    [quantity   |-> ParseFloat(i.qty),
     unit_price |-> ParseFloat(i.price),
     subtotal   |-> Times(ParseFloat(i.qty), ParseFloat(i.price))]

\* the payload handleSubmit builds: { pr, items, prNo }
BuildPayload(f, prNo) ==
    [pr    |-> [pr_no          |-> prNo,
                office_section |-> f.officeSection,
                total_cost     |-> total(f),
                is_high_value  |-> isHighValue(f),
                status         |-> "pending"],
     items |-> [k \in 1..Len(FilledItems(f.items)) |-> ItemRow(FilledItems(f.items)[k])]]

\* rowToRecord(row, itemCount)
rowToRecord(row, itemCount) ==
    [id        |-> [kind |-> "db", n |-> row.id],
     prNo      |-> row.pr_no,
     officeSection |-> row.office_section,
     quantity  |-> itemCount,
     totalCost |-> row.total_cost,
     status    |-> row.status]

\* mutant of Fallback: the record kept locally is a draft
FallbackDraft(payload, c) ==
    [id        |-> [kind |-> "local", n |-> c],
     prNo      |-> payload.pr.pr_no,
     officeSection |-> payload.pr.office_section,
     quantity  |-> Len(payload.items),
     totalCost |-> payload.pr.total_cost,
     status    |-> "draft"]

\* the record of the catch branch; `local-${Date.now()}` is local-c for call c
Fallback(payload, c) ==
    [id        |-> [kind |-> "local", n |-> c],
     prNo      |-> payload.pr.pr_no,
     officeSection |-> payload.pr.office_section,
     quantity  |-> Len(payload.items),
     totalCost |-> payload.pr.total_cost,
     status    |-> "pending"]

\* toCanvassingPR(record); unitCost is left out
toCanvassingPR(record) ==
    [set         |-> TRUE,
     prNo        |-> record.prNo,
     isHighValue |-> record.totalCost >= 10000,
     items       |-> <<[id |-> 1, qty |-> record.quantity]>>]

\* SEED_RECORDS, cut down to its first two records
SEED_RECORDS ==
    <<[id |-> [kind |-> "seed", n |-> 1], prNo |-> 1, officeSection |-> "STOD",
       quantity |-> 3, totalCost |-> 6700, status |-> "pending"],
      [id |-> [kind |-> "seed", n |-> 2], prNo |-> 2, officeSection |-> "LTSP",
       quantity |-> 1, totalCost |-> 6700, status |-> "overdue"]>>

\* what the tables hold when the screen opens: nothing, or one approved request
StoreInputs ==
    {EmptyStore,
     [purchase_requests |->
          <<[id |-> 1, pr_no |-> 1, office_section |-> "STOD", total_cost |-> 15000,
             is_high_value |-> TRUE, status |-> "approved"]>>,
      purchase_request_items |-> {[pr_id |-> 1, line |-> 1]}]}

\* payloads the modal hands to onSubmit: a standard and a high-value request
PayloadInputs(prNo) ==
    {[pr    |-> [pr_no |-> prNo, office_section |-> "STOD", total_cost |-> 6700,
                 is_high_value |-> FALSE, status |-> "pending"],
      items |-> <<[quantity |-> Num(1), unit_price |-> Num(6700), subtotal |-> Num(6700)]>>],
     [pr    |-> [pr_no |-> prNo, office_section |-> "STOD", total_cost |-> 15000,
                 is_high_value |-> TRUE, status |-> "pending"],
      items |-> <<[quantity |-> Num(1), unit_price |-> Num(10000), subtotal |-> Num(10000)],
                  [quantity |-> Num(2), unit_price |-> Num(2500), subtotal |-> Num(5000)]>>]}

InitPR ==
    /\ CanvassIdle
    /\ host \in {"PRModule", "ProcurementContent"}
    /\ records = IF host = "PRModule" THEN <<>> ELSE SEED_RECORDS
    /\ saving = FALSE
    /\ alerts = 0
    /\ prModalOpen = FALSE
    /\ generatedPRNo = 0
    /\ form = emptyForm
    /\ store \in StoreInputs
    /\ calls = <<>>
    /\ writes = <<>>
    /\ fetching = TRUE
    /\ canvassingPR = NoCanvassingPR
    /\ page = 1
    /\ searchQuery = ""
    /\ sectionFilter = "All"

\* fetchPurchaseRequests().then((rows) => { if (rows.length > 0) setRecords(...) })
FetchResolved ==
    /\ fetching
    /\ fetching' = FALSE
    /\ records' =
          IF Len(store.purchase_requests) > 0
          THEN [k \in 1..Len(store.purchase_requests) |->
                   rowToRecord(store.purchase_requests[k], 0)]
          ELSE records
    /\ UNCHANGED <<canvassVars, listVars, host, saving, alerts, prModalOpen, generatedPRNo, form,
                   store, calls, writes, canvassingPR>>

\* .catch(() => {})
FetchFailed ==
    /\ fetching
    /\ fetching' = FALSE
    /\ UNCHANGED <<canvassVars, listVars, host, records, saving, alerts, prModalOpen, generatedPRNo,
                   form, store, calls, writes, canvassingPR>>

\* the Create button can be pressed: the modal is not over it, nor is the
\* saving overlay ProcurementContent renders
CreateShown == ~prModalOpen /\ (host = "ProcurementContent" => ~saving)

\* the modal mounts: emptyForm, and the effect adds the first item
MountModal ==
    /\ prModalOpen' = TRUE
    /\ form' = [emptyForm EXCEPT !.items = <<makeItem>>]

\* generatePRNumber: the count of the rows of the year, plus one
generatePRNumber == Len(store.purchase_requests) + 1

\* handleOpenCreate, generatePRNumber resolved
HandleOpenCreate ==
    /\ CreateShown
    /\ generatedPRNo' = generatePRNumber
    /\ MountModal
    /\ UNCHANGED <<canvassVars, listVars, host, records, saving, alerts, store, calls, writes,
                   fetching, canvassingPR>>

\* handleOpenCreate, catch branch: records.length + 1
HandleOpenCreateOffline ==
    /\ CreateShown
    /\ generatedPRNo' = Len(records) + 1
    /\ MountModal
    /\ UNCHANGED <<canvassVars, listVars, host, records, saving, alerts, store, calls, writes,
                   fetching, canvassingPR>>

\* onClose={() => setPrModalOpen(false)}: the modal is unmounted
OnClose ==
    /\ prModalOpen
    /\ prModalOpen' = FALSE
    /\ form' = emptyForm
    /\ UNCHANGED <<canvassVars, listVars, host, records, saving, alerts, generatedPRNo, store,
                   calls, writes, fetching, canvassingPR>>

\* handlePRSubmit up to its await: setSaving(true), the header insert is sent
handlePRSubmit(payload) ==
    /\ Len(calls) < MaxSubmits
    /\ saving' = TRUE
    /\ calls' = Append(calls, [payload |-> payload, pc |-> "header", rowId |-> 0])
    /\ writes' = Append(writes, [call |-> Len(calls) + 1, table |-> "purchase_requests"])

\* the modal's submit button: handleSubmit, then onSubmit(payload) and onClose()
HandleSubmit ==
    /\ prModalOpen
    /\ isValid(form)
    /\ handlePRSubmit(BuildPayload(form, generatedPRNo))
    /\ prModalOpen' = FALSE
    /\ form' = emptyForm
    /\ UNCHANGED <<canvassVars, listVars, host, records, alerts, generatedPRNo, store, fetching,
                   canvassingPR>>

\* onSubmit(payload) and onClose() for a payload of a form that is not modelled
OnSubmit(payload) ==
    /\ prModalOpen
    /\ handlePRSubmit(payload)
    /\ prModalOpen' = FALSE
    /\ form' = emptyForm
    /\ UNCHANGED <<canvassVars, listVars, host, records, alerts, generatedPRNo, store, fetching,
                   canvassingPR>>

\* try branch after the await: the saved row is shown first in the list
SavedToList(c, row) ==
    /\ records' = <<rowToRecord(row, Len(calls[c].payload.items))>> \o records
    /\ page' = 1
    /\ saving' = FALSE
    /\ UNCHANGED alerts

\* catch branch: the fallback record is shown first, one alert; finally
SavedLocally(c) ==
    /\ records' = <<Fallback(calls[c].payload, c)>> \o records
    /\ page' = 1
    /\ alerts' = alerts + 1
    /\ saving' = FALSE

\* pr_no is UNIQUE: a second row with the number is refused
PrNoFree(prNo) ==
    \A k \in 1..Len(store.purchase_requests) : store.purchase_requests[k].pr_no # prNo

\* the row .insert(pr).select().single() returns
NewRow(payload) ==
    [id             |-> Len(store.purchase_requests) + 1,
     pr_no          |-> payload.pr.pr_no,
     office_section |-> payload.pr.office_section,
     total_cost     |-> payload.pr.total_cost,
     is_high_value  |-> payload.pr.is_high_value,
     status         |-> payload.pr.status]

\* insertPurchaseRequest: the header insert succeeded; with line items the
\* items insert is sent, without them the call returns the row
InsertHeaderOk(c) ==
    /\ c \in 1..Len(calls)
    /\ calls[c].pc = "header"
    /\ PrNoFree(calls[c].payload.pr.pr_no)
    /\ LET row == NewRow(calls[c].payload)
       IN  /\ store' = [store EXCEPT !.purchase_requests = Append(@, row)]
           /\ IF Len(calls[c].payload.items) > 0
              THEN /\ calls' = [calls EXCEPT ![c].pc = "items", ![c].rowId = row.id]
                   /\ writes' = Append(writes, [call |-> c, table |-> "purchase_request_items"])
                   /\ UNCHANGED <<records, saving, alerts, page>>
              ELSE /\ calls' = [calls EXCEPT ![c].pc = "saved", ![c].rowId = row.id]
                   /\ SavedToList(c, row)
                   /\ UNCHANGED writes
    /\ UNCHANGED <<canvassVars, searchQuery, sectionFilter, host, prModalOpen, generatedPRNo, form, fetching,
                   canvassingPR>>

\* insertPurchaseRequest: if (error) throw error
InsertHeaderFails(c) ==
    /\ c \in 1..Len(calls)
    /\ calls[c].pc = "header"
    /\ calls' = [calls EXCEPT ![c].pc = "local"]
    /\ SavedLocally(c)
    /\ UNCHANGED <<canvassVars, searchQuery, sectionFilter, host, prModalOpen, generatedPRNo, form, store, writes,
                   fetching, canvassingPR>>

\* insertPurchaseRequest: the items insert succeeded, the call returns the row
InsertItemsOk(c) ==
    /\ c \in 1..Len(calls)
    /\ calls[c].pc = "items"
    /\ store' = [store EXCEPT !.purchase_request_items =
                    @ \cup {[pr_id |-> calls[c].rowId, line |-> k] :
                               k \in 1..Len(calls[c].payload.items)}]
    /\ calls' = [calls EXCEPT ![c].pc = "saved"]
    /\ SavedToList(c, store.purchase_requests[calls[c].rowId])
    /\ UNCHANGED <<canvassVars, searchQuery, sectionFilter, host, prModalOpen, generatedPRNo, form, writes, fetching,
                   canvassingPR>>

\* insertPurchaseRequest: if (itemsError) throw itemsError
InsertItemsFails(c) ==
    /\ c \in 1..Len(calls)
    /\ calls[c].pc = "items"
    /\ calls' = [calls EXCEPT ![c].pc = "local"]
    /\ SavedLocally(c)
    /\ UNCHANGED <<canvassVars, searchQuery, sectionFilter, host, prModalOpen, generatedPRNo, form, store, writes,
                   fetching, canvassingPR>>

\* handleStartCanvassing(record, navigation)
HandleStartCanvassing(k) ==
    /\ k \in 1..Len(records)
    /\ canvassingPR' = toCanvassingPR(records[k])
    /\ canvassingPR' # canvassingPR
    /\ UNCHANGED <<canvassVars, listVars, host, records, saving, alerts, prModalOpen, generatedPRNo,
                   form, store, calls, writes, fetching>>

NextPR ==
    \/ FetchResolved
    \/ FetchFailed
    \/ HandleOpenCreate
    \/ HandleOpenCreateOffline
    \/ OnClose
    \/ \E payload \in PayloadInputs(generatedPRNo) : OnSubmit(payload)
    \/ \E c \in 1..MaxSubmits : InsertHeaderOk(c)
    \/ \E c \in 1..MaxSubmits : InsertHeaderFails(c)
    \/ \E c \in 1..MaxSubmits : InsertItemsOk(c)
    \/ \E c \in 1..MaxSubmits : InsertItemsFails(c)

\* the list screen: purchase requests are created and saved
SpecPR == InitPR /\ [][NextPR]_vars

(***************************************************************************)
(* The create modal on its own: the form is drawn from a bounded set, the  *)
(* submit button applies handleSubmit to it, the list saves the request    *)
(* and maps its record into the canvassing input.                          *)
(***************************************************************************)
\* what the quantity and the price fields may hold
QtyStrings == {<<>>, <<"1">>, <<"2">>}

UnitPriceStrings ==
    {<<>>, <<"3", "3", "0", "0">>, <<"6", "7", "0", "0">>,
     <<"1", "0", "0", "0", "0">>, <<"1", "5", "0", "0", "0">>}

\* a line item of the form
FormItemInputs == [desc : {"", "Paper"}, qty : QtyStrings, price : UnitPriceStrings]

\* the forms of up to FormItems line items
FormInputs ==
    [officeSection    : {"", "STOD"},
     purpose          : {"", "Supplies"},
     items            : UNION {[1..n -> FormItemInputs] : n \in 0..FormItems},
     budgetNumber     : {"", "B-1"},
     papCode          : {"", "P-1"},
     proposalFileName : {"", "Proposal.pdf"}]

InitForm ==
    /\ CanvassIdle
    /\ host = "PRModule"
    /\ records = <<>>
    /\ saving = FALSE
    /\ alerts = 0
    /\ prModalOpen = TRUE
    /\ generatedPRNo = 1
    /\ form \in FormInputs
    /\ store = EmptyStore
    /\ calls = <<>>
    /\ writes = <<>>
    /\ fetching = FALSE
    /\ canvassingPR = NoCanvassingPR
    /\ page = 1
    /\ searchQuery = ""
    /\ sectionFilter = "All"

NextForm ==
    \/ HandleSubmit
    \/ \E c \in 1..MaxSubmits : InsertHeaderOk(c)
    \/ \E c \in 1..MaxSubmits : InsertHeaderFails(c)
    \/ \E c \in 1..MaxSubmits : InsertItemsOk(c)
    \/ \E c \in 1..MaxSubmits : InsertItemsFails(c)
    \/ \E k \in 1..MaxSubmits : HandleStartCanvassing(k)

SpecForm == InitForm /\ [][NextForm]_vars

(***************************************************************************)
(* The list on its own: filtering and pagination.  The store holds up to   *)
(* MaxRows requests when the screen opens, the mount effect loads them,    *)
(* requests are created, and the search bar, the section chips and the     *)
(* pagination buttons are used.                                            *)
(***************************************************************************)
\* const PAGE_SIZE = 7
PAGE_SIZE == 7

\* Math.ceil(n / PAGE_SIZE) for n >= 0
CeilPages(n) == (n + PAGE_SIZE - 1) \div PAGE_SIZE

Max(a, b) == IF a >= b THEN a ELSE b

\* the section chips the model presses, of SECTION_FILTERS
SECTION_FILTERS == {"All", "STOD", "LTSP"}

\* the texts typed into the search bar: none, a section's name, a text that
\* no record holds
SearchInputs == {"", "stod", "zzz"}

\* toLowerCase() of the section names
ToLowerCase(t) ==
    CASE t = "STOD" -> "stod"
      [] t = "LTSP" -> "ltsp"
      [] OTHER      -> t

\* r.prNo, r.itemDescription or r.officeSection includes q; for the texts of
\* SearchInputs that is the case exactly when q is the record's section
matchSearch(r, q) == q = "" \/ ToLowerCase(r.officeSection) = q

\* sectionFilter === "All" || r.officeSection === sectionFilter
matchSection(r, s) == s = "All" \/ r.officeSection = s

\* records.filter((r) => matchSearch && matchSection)
filtered == SelectSeq(records, LAMBDA r : matchSearch(r, searchQuery)
                                          /\ matchSection(r, sectionFilter))

\* filtered.slice((page - 1) * PAGE_SIZE, page * PAGE_SIZE): slice counts a
\* negative start from the end of the array
paged ==
    LET n      == Len(filtered)
        from   == (page - 1) * PAGE_SIZE
        upto   == page * PAGE_SIZE
        start  == IF from < 0 THEN Max(n + from, 0) ELSE Min(from, n)
        finish == IF upto < 0 THEN Max(n + upto, 0) ELSE Min(upto, n)
    IN  IF start < finish THEN SubSeq(filtered, start + 1, finish) ELSE <<>>

\* Pagination: const pages = Math.max(1, Math.ceil(total / pageSize))
pages == Max(1, CeilPages(Len(filtered)))

\* the list is in front: neither the modal nor the saving overlay covers it
ListShown == CreateShown

\* the numbered buttons: PRModule renders 1..min(5, max(1, ceil)); Pagination
\* renders nothing for one page and a window of five around the page otherwise
PageNumbers ==
    IF host = "PRModule"
    THEN 1..Min(5, Max(1, CeilPages(Len(filtered))))
    ELSE IF pages <= 1 THEN {}
         ELSE {IF pages <= 5 \/ page <= 3 THEN i + 1
               ELSE IF page >= pages - 2 THEN pages - 4 + i
               ELSE page - 2 + i : i \in 0..(Min(pages, 5) - 1)}

\* what the list variables leave alone
ListFrame ==
    UNCHANGED <<canvassVars, host, records, saving, alerts, prModalOpen, generatedPRNo,
                form, store, calls, writes, fetching, canvassingPR>>

\* onChange={(t) => { setSearchQuery(t); setPage(1); }}
SetSearchQuery(t) ==
    /\ ListShown
    /\ searchQuery' = t
    /\ page' = 1
    /\ UNCHANGED sectionFilter
    /\ ListFrame

\* onSelect={(s) => { setSectionFilter(s); setPage(1); }}
SetSectionFilter(s) ==
    /\ ListShown
    /\ sectionFilter' = s
    /\ page' = 1
    /\ UNCHANGED searchQuery
    /\ ListFrame

\* { label: "<", page: Math.max(1, page - 1), disabled: page === 1 }
PagePrev ==
    /\ ListShown
    /\ host = "ProcurementContent" => pages > 1
    /\ page # 1
    /\ page' = Max(1, page - 1)
    /\ UNCHANGED <<searchQuery, sectionFilter>>
    /\ ListFrame

\* a numbered button: setPage(p)
PageNumber(p) ==
    /\ ListShown
    /\ p \in PageNumbers
    /\ page' = p
    /\ UNCHANGED <<searchQuery, sectionFilter>>
    /\ ListFrame

\* PRModule: { label: ">", page: Math.min(Math.ceil(filtered.length / PAGE_SIZE), page + 1),
\*             disabled: page === Math.ceil(filtered.length / PAGE_SIZE) }
\* Pagination: { label: ">", page: Math.min(pages, page + 1), disabled: page === pages }
PageNext ==
    /\ ListShown
    /\ IF host = "PRModule"
       THEN /\ page # CeilPages(Len(filtered))
            /\ page' = Min(CeilPages(Len(filtered)), page + 1)
       ELSE /\ pages > 1
            /\ page # pages
            /\ page' = Min(pages, page + 1)
    /\ UNCHANGED <<searchQuery, sectionFilter>>
    /\ ListFrame

\* row k of the store the screen opens on: the sections alternate
StoredRow(k) ==
    [id |-> k, pr_no |-> k,
     office_section |-> IF k % 2 = 1 THEN "STOD" ELSE "LTSP",
     total_cost |-> 6700, is_high_value |-> FALSE, status |-> "pending"]

\* the stores of up to MaxRows requests, one line item each
ListStores ==
    {[purchase_requests      |-> [k \in 1..n |-> StoredRow(k)],
      purchase_request_items |-> {[pr_id |-> k, line |-> 1] : k \in 1..n}] : n \in 0..MaxRows}

\* the request the modal submits while the list is looked at
ListPayload(prNo) ==
    [pr    |-> [pr_no |-> prNo, office_section |-> "STOD", total_cost |-> 6700,
                is_high_value |-> FALSE, status |-> "pending"],
     items |-> <<>>]

InitList ==
    /\ CanvassIdle
    /\ host \in {"PRModule", "ProcurementContent"}
    /\ records = IF host = "PRModule" THEN <<>> ELSE SEED_RECORDS
    /\ saving = FALSE
    /\ alerts = 0
    /\ prModalOpen = FALSE
    /\ generatedPRNo = 0
    /\ form = emptyForm
    /\ store \in ListStores
    /\ calls = <<>>
    /\ writes = <<>>
    /\ fetching = TRUE
    /\ canvassingPR = NoCanvassingPR
    /\ page = 1
    /\ searchQuery = ""
    /\ sectionFilter = "All"

NextList ==
    \/ FetchResolved
    \/ FetchFailed
    \/ HandleOpenCreate
    \/ OnClose
    \/ OnSubmit(ListPayload(generatedPRNo))
    \/ \E c \in 1..MaxSubmits : InsertHeaderOk(c)
    \/ \E c \in 1..MaxSubmits : InsertHeaderFails(c)
    \/ \E t \in SearchInputs : SetSearchQuery(t)
    \/ \E s \in SECTION_FILTERS : SetSectionFilter(s)
    \/ PagePrev
    \/ \E p \in 1..5 : PageNumber(p)
    \/ PageNext

\* the list screen: requests are loaded, created, filtered and paged
SpecList == InitList /\ [][NextList]_vars

(***************************************************************************)
(* Notions the properties are stated with.                                 *)
(***************************************************************************)
\* the sum of f over the finite set S
RECURSIVE SumFn(_, _)
SumFn(f, S) ==
    IF S = {} THEN 0
    ELSE LET x == CHOOSE y \in S : TRUE IN f[x] + SumFn(f, S \ {x})

\* the least element of a non-empty set of integers
Least(S) == CHOOSE x \in S : \A y \in S : x <= y

\* the supplier has an entry for the item and the entry reads as a number
HasBid(sp, itemId) ==
    /\ itemId \in DOMAIN sp.unitPrices
    /\ ~ParseFloat(sp.unitPrices[itemId]).nan

\* the price the supplier quoted for the item, zero when there is no bid
Quoted(sp, itemId) ==
    IF HasBid(sp, itemId) THEN ParseFloat(sp.unitPrices[itemId]).val ELSE 0

\* a price that counts as a bid: a positive number
IsPriced(sp, itemId) == HasBid(sp, itemId) /\ Quoted(sp, itemId) > 0

\* an entry that is blank, zero, negative or not a number
IsIgnoredEntry(sp, itemId) ==
    itemId \in DOMAIN sp.unitPrices /\ ~IsPriced(sp, itemId)

\* sum over the line items of quoted price times quantity
GrandTotal(items, sp) ==
    SumFn([j \in 1..Len(items) |-> Quoted(sp, items[j].id) * items[j].qty],
          1..Len(items))

\* the button that advances the stage shown is enabled
AdvanceEnabled ==
    CASE stage = "pr_received"     -> CanAcknowledge
      [] stage = "bac_resolution"  -> CanFinalizeResolution
      [] stage = "release_canvass" -> CanCompleteRelease
      [] stage = "collect_canvass" -> CanEncodeComplete
      [] stage = "aaa_preparation" -> CanForward

AllReturned == \A i \in DOMAIN divisions : divisions[i].status = "returned"

SomePricedQuote ==
    \E k \in 1..Len(suppliers) :
        /\ suppliers[k].supplierName # ""
        /\ \E it \in ItemIds(pr) : IsPriced(suppliers[k], it)

\* the completion predicates of the stages, as the specification tabulates them
CompletionPredicate(s) ==
    CASE s = "pr_received"     -> Trim(bacNo) # <<>> /\ receivedBy # ""
      [] s = "bac_resolution"  -> allSigned(bacMembers)
      [] s = "release_canvass" -> \A i \in DOMAIN divisions : divisions[i].status # "pending"
      [] s = "collect_canvass" -> AllReturned /\ SomePricedQuote
      [] s = "aaa_preparation" -> allSigned(aaaMembers)

\* a step taken by one of the buttons that move to the next stage
AdvanceStep == Acknowledge \/ FinalizeResolution \/ CompleteRelease \/ EncodeComplete

(***************************************************************************)
(* C1.  The stage starts at pr_received; the advance from a stage is       *)
(* possible iff that stage's completion predicate holds, and every advance *)
(* moves to exactly the next stage of STAGE_ORDER.                         *)
(***************************************************************************)
C1_AdvanceIffComplete ==
    [][ /\ AdvanceEnabled <=> CompletionPredicate(stage)
        /\ AdvanceStep => IndexOf(stage') = IndexOf(stage) + 1 ]_vars

(***************************************************************************)
(* C2.  The advance from collect_canvass is enabled only when every        *)
(* division assignment is returned.                                        *)
(***************************************************************************)
C2_AdvanceOnlyWhenAllReturned ==
    (stage = "collect_canvass" /\ CanEncodeComplete) => AllReturned

(***************************************************************************)
(* C3.  The advance from collect_canvass is enabled only when some quote   *)
(* has a supplier name and an item with a positive price.                  *)
(***************************************************************************)
C3_AdvanceOnlyWithPricedQuote ==
    (stage = "collect_canvass" /\ CanEncodeComplete) => SomePricedQuote

(***************************************************************************)
(* C4.  At aaa_preparation the forwarding of the session is possible iff   *)
(* every member of the abstract roster has signed.                         *)
(***************************************************************************)
C4_ForwardIffAllSigned ==
    stage = "aaa_preparation" => (CanForward <=> allSigned(aaaMembers))

(***************************************************************************)
(* C5.  An emitted payload carries the canvass number given at             *)
(* pr_received, a resolution number, a procurement mode and an abstract    *)
(* number: values of the session, not empty ones.                          *)
(***************************************************************************)
C5_PayloadCarriesSessionValues ==
    \A i \in 1..Len(emitted) :
        /\ emitted[i].bac_no = entered.bac_no
        /\ emitted[i].resolution_no # <<>>
        /\ emitted[i].mode_of_procurement \in MODES_OF_PROCUREMENT
        /\ emitted[i].aaa_no # <<>>

(***************************************************************************)
(* C6.  An emitted payload has the PR number the session was opened with,  *)
(* its awarded total is the least positive grand total over the quotes     *)
(* held, and its awarded supplier is a supplier with that grand total.     *)
(***************************************************************************)
C6_PayloadAward ==
    \A i \in 1..Len(emitted) :
        LET p      == emitted[i]
            totals == {GrandTotal(pr.items, p.suppliers[k]) : k \in 1..Len(p.suppliers)}
            pos    == {t \in totals : t > 0}
        IN  /\ p.pr_no = pr.prNo
            /\ p.suppliers = suppliers
            /\ pos # {}
            /\ p.awarded_total = Least(pos)
            /\ \E k \in 1..Len(p.suppliers) :
                  /\ GrandTotal(pr.items, p.suppliers[k]) = p.awarded_total
                  /\ p.awarded_supplier = p.suppliers[k].supplierName

\* a payload was emitted for two quotes of which the second, named, is the lower
C6_Witness ==
    /\ Len(emitted) >= 1
    /\ Len(suppliers) = 2
    /\ suppliers[1].supplierName = ""
    /\ suppliers[2].supplierName = "A"
    /\ GrandTotal(pr.items, suppliers[2]) > 0
    /\ GrandTotal(pr.items, suppliers[1]) > GrandTotal(pr.items, suppliers[2])
    /\ emitted[1].awarded_supplier = "A"

(***************************************************************************)
(* C7.  An entry that is blank, zero, negative or not a number never wins  *)
(* its item and adds exactly 0 to the supplier's grand total.              *)
(***************************************************************************)
C7_IgnoredEntriesCountZero ==
    abstract.rendered =>
        \A k \in 1..Len(suppliers), j \in 1..Len(pr.items) :
            IsIgnoredEntry(suppliers[k], pr.items[j].id) =>
                /\ ~(abstract.winners[j].found /\ abstract.winners[j].idx = k)
                /\ abstract.totals[k].total =
                      SumFn([m \in 1..Len(pr.items) |->
                                Quoted(suppliers[k], pr.items[m].id) * pr.items[m].qty],
                            (1..Len(pr.items)) \ {j})

(***************************************************************************)
(* C8.  The winner of an item is the supplier with the least positive      *)
(* price for it, the first of the list on a tie; there is no winner when   *)
(* no supplier has a positive price for the item.                          *)
(***************************************************************************)
C8_ItemWinner ==
    abstract.rendered =>
        \A j \in 1..Len(pr.items) :
            LET id     == pr.items[j].id
                priced == {k \in 1..Len(suppliers) : IsPriced(suppliers[k], id)}
                w      == abstract.winners[j]
            IN  IF priced = {} THEN ~w.found
                ELSE LET low  == Least({Quoted(suppliers[k], id) : k \in priced})
                         tied == {k \in priced : Quoted(suppliers[k], id) = low}
                     IN  w.found /\ w.price = low /\ w.idx = Least(tied)

\* two suppliers quote the same positive price for an item: the first wins
C8_Witness ==
    /\ abstract.rendered
    /\ Len(suppliers) = 2
    /\ IsPriced(suppliers[1], 1)
    /\ Quoted(suppliers[1], 1) = Quoted(suppliers[2], 1)
    /\ abstract.winners[1].idx = 1

(***************************************************************************)
(* C9.  The recommended awardee is a supplier with the least grand total   *)
(* among the grand totals > 0; there is none iff no grand total is > 0.    *)
(***************************************************************************)
C9_LowestSupplier ==
    abstract.rendered =>
        LET pos == {k \in 1..Len(suppliers) : abstract.totals[k].total > 0}
            a   == abstract.lowest
        IN  /\ a.found <=> pos # {}
            /\ a.found =>
                  /\ a.idx \in pos
                  /\ a.total = abstract.totals[a.idx].total
                  /\ \A k \in pos : a.total <= abstract.totals[k].total

\* the second of two suppliers with positive grand totals is the lower one
C9_Witness ==
    /\ abstract.rendered
    /\ Len(suppliers) = 2
    /\ abstract.totals[2].total > 0
    /\ abstract.totals[1].total > abstract.totals[2].total
    /\ abstract.lowest.idx = 2

(***************************************************************************)
(* C10.  A supplier's grand total is the sum over the line items of quoted *)
(* price times quantity, an item without a bid adding zero; for the items  *)
(* [{id 1, qty 2}] and the quotes A {1: "10"}, B {1: "5"} the winner of    *)
(* item 1 is B at 5 and B's grand total is 10.                             *)
(***************************************************************************)
ExampleInput ==
    /\ pr.items = <<[id |-> 1, qty |-> 2]>>
    /\ Len(suppliers) = 2
    /\ suppliers[1].unitPrices = [i \in {1} |-> <<"1", "0">>]
    /\ suppliers[2].unitPrices = [i \in {1} |-> <<"5">>]

C10_GrandTotal ==
    abstract.rendered =>
        /\ \A k \in 1..Len(suppliers) :
              abstract.totals[k].total = GrandTotal(pr.items, suppliers[k])
        /\ ExampleInput =>
              /\ abstract.winners[1].found
              /\ abstract.winners[1].idx = 2
              /\ abstract.winners[1].price = 5
              /\ abstract.totals[2].total = 10

\* the example of the claim, rendered
C10_Witness == abstract.rendered /\ ExampleInput /\ suppliers[2].supplierName = "B"

(***************************************************************************)
(* Notions of the division and roster properties.                          *)
(***************************************************************************)
\* the place of a status along pending -> released -> returned
Rank(st) == CASE st = "pending" -> 0 [] st = "released" -> 1 [] st = "returned" -> 2

\* how many entries of the roster are signed
SignedCount(members) == Cardinality({i \in DOMAIN members : members[i].signed})

\* the signed flags of a roster
Flags(members) == [i \in DOMAIN members |-> members[i].signed]

\* a step that opens a stage other than the one after the stage shown
ReentryStep == stage' # stage /\ IndexOf(stage') # IndexOf(stage) + 1

(***************************************************************************)
(* C13.  In a session no division status moves backwards along             *)
(* pending -> released -> returned: a released division never becomes      *)
(* pending, a returned one never becomes released or pending.              *)
(***************************************************************************)
C13_StatusNeverBackwards ==
    [][ \A i \in DOMAIN divisions :
           Rank(divisions'[i].status) >= Rank(divisions[i].status) ]_vars

\* the release step is shown again (web sidebar) while a division is returned
C13_Witness ==
    /\ stage = "release_canvass"
    /\ "collect_canvass" \in completed
    /\ \E i \in DOMAIN divisions : divisions[i].status = "returned"

(***************************************************************************)
(* C14.  markReturned is offered for every division that is not returned,  *)
(* released or not, and a division it is applied to ends with status       *)
(* returned and a return date.                                             *)
(***************************************************************************)
C14_ReturnedAfterMark ==
    [][ \A i \in DOMAIN divisions :
           /\ (stage = "collect_canvass" /\ divisions[i].status # "returned")
                 => ENABLED MarkReturned(i)
           /\ MarkReturned(i) =>
                 /\ divisions'[i].status = "returned"
                 /\ divisions'[i].returnDate # "" ]_vars

\* one division was marked returned without a release, another after one
C14_Witness ==
    \E i, j \in DOMAIN divisions :
        /\ divisions[i].status = "returned"
        /\ divisions[i].releaseDate = ""
        /\ divisions[i].returnDate = TODAY
        /\ divisions[j].status = "returned"
        /\ divisions[j].releaseDate # ""
        /\ divisions[j].returnDate = TODAY

(***************************************************************************)
(* C15.  A signature roster of n entries is complete (allSigned) iff all   *)
(* n entries are signed: it is not complete while a proper subset is       *)
(* signed.                                                                 *)
(***************************************************************************)
C15_CompleteIffAllSigned ==
    /\ allSigned(bacMembers) <=> SignedCount(bacMembers) = Len(bacMembers)
    /\ allSigned(aaaMembers) <=> SignedCount(aaaMembers) = Len(aaaMembers)

\* the resolution roster is complete and all but one abstract entries are signed
C15_Witness ==
    /\ stage = "aaa_preparation"
    /\ SignedCount(bacMembers) = NumMembers
    /\ SignedCount(aaaMembers) = NumMembers - 1
    /\ ~allSigned(aaaMembers)

(***************************************************************************)
(* C16.  Signing a signed entry changes no signed flag, and no step takes  *)
(* a signature away: an entry of the resolution roster or of the abstract  *)
(* roster that is signed before a step is an entry of that roster and      *)
(* signed after it.                                                        *)
(***************************************************************************)
C16_SignedStaysSigned ==
    [][ \A i \in 1..NumMembers :
          /\ bacMembers[i].signed =>
                 /\ Flags(Sign(bacMembers, i)) = Flags(bacMembers)
                 /\ bacMembers'[i].signed
          /\ (i \in DOMAIN aaaMembers /\ aaaMembers[i].signed) =>
                 /\ Flags(Sign(aaaMembers, i)) = Flags(aaaMembers)
                 /\ i \in DOMAIN aaaMembers'
                 /\ aaaMembers'[i].signed ]_vars

(***************************************************************************)
(* C17.  Opening a completed stage from the sidebar changes the stage      *)
(* shown and leaves the completed set, the resolution roster, the          *)
(* division assignments and the supplier quotes as they are; no step makes *)
(* the completed set smaller.                                              *)
(***************************************************************************)
C17_ReentryKeepsProgress ==
    [][ /\ completed \subseteq completed'
        /\ ReentryStep =>
              /\ stage' \in completed
              /\ UNCHANGED <<completed, bacMembers, divisions, suppliers>> ]_vars

\* an earlier stage is shown again with signatures, returns and a quote in place
C17_Witness ==
    /\ stage = "bac_resolution"
    /\ "collect_canvass" \in completed
    /\ allSigned(bacMembers)
    /\ \E i \in DOMAIN divisions : divisions[i].status = "returned"
    /\ \E k \in 1..Len(suppliers) : suppliers[k].supplierName # ""

(***************************************************************************)
(* C18.  The advance from bac_resolution to release_canvass is possible    *)
(* iff every member of the resolution roster is signed.                    *)
(***************************************************************************)
C18_ResolutionAdvance ==
    stage = "bac_resolution" =>
        /\ CanFinalizeResolution <=> \A i \in DOMAIN bacMembers : bacMembers[i].signed
        /\ ENABLED FinalizeResolution <=> CanFinalizeResolution

\* the last member has signed and the advance is possible
C18_Witness ==
    /\ stage = "bac_resolution"
    /\ SignedCount(bacMembers) = NumMembers
    /\ ENABLED FinalizeResolution

(***************************************************************************)
(* C19.  The advance from release_canvass to collect_canvass is possible   *)
(* iff no division assignment is pending.                                  *)
(***************************************************************************)
C19_ReleaseAdvance ==
    stage = "release_canvass" =>
        /\ CanCompleteRelease <=> \A i \in DOMAIN divisions : divisions[i].status # "pending"
        /\ ENABLED CompleteRelease <=> CanCompleteRelease

\* every division is released and the advance is possible
C19_Witness ==
    /\ stage = "release_canvass"
    /\ \A i \in DOMAIN divisions : divisions[i].status = "released"
    /\ ENABLED CompleteRelease

(***************************************************************************)
(* Notions of the purchase-request properties.                             *)
(***************************************************************************)
\* the inserts sent to the store for call c, oldest first
WritesOf(log, c) == SelectSeq(log, LAMBDA w : w.call = c)

\* a step in which call c ends in the catch branch
FailStep(c) == calls[c].pc \in {"header", "items"} /\ calls'[c].pc = "local"

\* the line items the store holds for the header row of call c
ItemsStoredOf(c) == {it \in store.purchase_request_items : it.pr_id = calls[c].rowId}

\* quantity times unit price, zero when one of them is blank or not a number
LineAmountOf(i) ==
    IF ParseFloat(i.qty).nan \/ ParseFloat(i.price).nan THEN 0
    ELSE ParseFloat(i.qty).val * ParseFloat(i.price).val

\* the total of a request: the sum of its line amounts
RequestTotal(items) ==
    SumFn([k \in 1..Len(items) |-> LineAmountOf(items[k])], 1..Len(items))

(***************************************************************************)
(* C11.  When the insert of a submitted request fails, exactly one record  *)
(* with the submitted PR number and status pending is put at the front of  *)
(* the local list, one notice is shown and the saving flag is false; no    *)
(* insert is sent for that request afterwards.                             *)
(***************************************************************************)
C11_FailureKeptLocally ==
    [][ \A c \in 1..Len(calls) :
           /\ FailStep(c) =>
                 /\ Len(records') = Len(records) + 1
                 /\ Tail(records') = records
                 /\ Head(records').prNo = calls[c].payload.pr.pr_no
                 /\ Head(records').status = "pending"
                 /\ alerts' = alerts + 1
                 /\ saving' = FALSE
           /\ calls[c].pc = "local" =>
                 /\ calls'[c].pc = "local"
                 /\ WritesOf(writes', c) = WritesOf(writes, c) ]_vars

\* the first request was kept locally, a second one was submitted and saved
C11_Witness ==
    /\ Len(calls) = 2
    /\ calls[1].pc = "local"
    /\ calls[2].pc = "saved"
    /\ alerts = 1
    /\ ~saving
    /\ \E k \in 1..Len(records) : records[k].id = [kind |-> "local", n |-> 1]

(***************************************************************************)
(* C12.  After a call of insertPurchaseRequest either the header row and   *)
(* all its line items are stored, or neither the header nor any line item  *)
(* is.                                                                     *)
(***************************************************************************)
C12_InsertAtomic ==
    \A c \in 1..Len(calls) :
        calls[c].pc \in {"saved", "local"} =>
            \/ /\ calls[c].rowId # 0
               /\ Cardinality(ItemsStoredOf(c)) = Len(calls[c].payload.items)
            \/ /\ calls[c].rowId = 0
               /\ ItemsStoredOf(c) = {}

(***************************************************************************)
(* C20.  The high-value flag is true exactly when the total is at least    *)
(* 10000, in the form, in the payload it submits and in the canvassing     *)
(* input a record is mapped to: 6700 gives false, 10000 and 15000 give     *)
(* true.                                                                   *)
(***************************************************************************)
C20_HighValueFlag ==
    /\ prModalOpen =>
          /\ isHighValue(form) <=> RequestTotal(form.items) >= 10000
          /\ RequestTotal(form.items) = 6700 => ~isHighValue(form)
          /\ RequestTotal(form.items) \in {10000, 15000} => isHighValue(form)
    /\ \A c \in 1..Len(calls) :
          calls[c].payload.pr.is_high_value <=> calls[c].payload.pr.total_cost >= 10000
    /\ canvassingPR.set =>
          \A k \in 1..Len(records) :
              records[k].prNo = canvassingPR.prNo =>
                  (canvassingPR.isHighValue <=> records[k].totalCost >= 10000)

\* a request of exactly 10000 was submitted and its record opened for canvassing
C20_Witness ==
    /\ canvassingPR.set
    /\ canvassingPR.isHighValue
    /\ Len(records) = 1
    /\ records[1].totalCost = 10000
    /\ calls[1].payload.pr.is_high_value

(***************************************************************************)
(* C21.  The form is submitted only when it has a line item with           *)
(* description, quantity and price, an office/section and a purpose, and,  *)
(* when its total is at least the threshold, a budget number, a PAP code   *)
(* and a proposal file; the payload's is_high_value and total_cost are     *)
(* those of the form's items at that moment.                               *)
(***************************************************************************)
C21_SubmitOnlyWhenValid ==
    [][ (prModalOpen /\ Len(calls') = Len(calls) + 1) =>
           LET sent == calls'[Len(calls')].payload IN
           /\ \E k \in 1..Len(form.items) :
                  /\ form.items[k].desc # ""
                  /\ form.items[k].qty # <<>>
                  /\ form.items[k].price # <<>>
           /\ form.officeSection # ""
           /\ form.purpose # ""
           /\ RequestTotal(form.items) >= HIGH_VALUE_THRESHOLD =>
                  /\ form.budgetNumber # ""
                  /\ form.papCode # ""
                  /\ form.proposalFileName # ""
           /\ sent.pr.total_cost = RequestTotal(form.items)
           /\ sent.pr.is_high_value = (RequestTotal(form.items) >= HIGH_VALUE_THRESHOLD) ]_vars

\* a high-value form of two line items, 6700 and 3300, was submitted
C21_Witness ==
    /\ Len(calls) = 1
    /\ ~prModalOpen
    /\ calls[1].payload.pr.total_cost = 10000
    /\ calls[1].payload.pr.is_high_value
    /\ Len(calls[1].payload.items) = 2

(***************************************************************************)
(* C22.  When the modal submits, the new record is in the local list from  *)
(* that moment on, before the insert has resolved or failed: the step that *)
(* sends the request puts a record with its PR number first in the list.   *)
(***************************************************************************)
C22_RecordShownOnSubmit ==
    [][ Len(calls') = Len(calls) + 1 =>
           /\ Len(records') = Len(records) + 1
           /\ Head(records').prNo = calls'[Len(calls')].payload.pr.pr_no ]_vars

(***************************************************************************)
(* C23.  Whenever the stage is aaa_preparation the award calculator names  *)
(* a recommended awardee (some supplier has a grand total above zero), and *)
(* once every abstract signatory has signed the summary can be forwarded:  *)
(* no state of that stage is a dead end.                                   *)
(***************************************************************************)
C23_AwardeeAtAbstract ==
    stage = "aaa_preparation" =>
        /\ abstract.lowest.found
        /\ \E k \in 1..Len(suppliers) : GrandTotal(pr.items, suppliers[k]) > 0
        /\ allSigned(aaaMembers) => CanForward

(***************************************************************************)
(* C24.  The session summary is handed to onComplete at most once in a     *)
(* session: no action emits a second summary after the first.              *)
(***************************************************************************)
C24_EmittedAtMostOnce == Len(emitted) <= 1

(***************************************************************************)
(* C25.  The ids of the supplier quotes are pairwise distinct in every     *)
(* state, also when Collect Canvass is left and entered again between      *)
(* adding and removing suppliers.                                          *)
(***************************************************************************)
C25_SupplierIdsDistinct ==
    \A j, k \in 1..Len(suppliers) : suppliers[j].id = suppliers[k].id => j = k

(***************************************************************************)
(* C26.  The records of the local list carry pairwise distinct PR numbers, *)
(* whichever of the number generations and inserts of the create flows     *)
(* succeed or fail.                                                        *)
(***************************************************************************)
C26_PRNumbersDistinct ==
    \A j, k \in 1..Len(records) : records[j].prNo = records[k].prNo => j = k

(***************************************************************************)
(* C27.  The page of the purchase-request list is at least 1 and at most   *)
(* max(1, ceil(filtered records / 7)) in every state, also when no record  *)
(* matches the filter.                                                     *)
(***************************************************************************)
C27_PageInRange ==
    /\ page >= 1
    /\ page <= Max(1, CeilPages(Len(filtered)))

(***************************************************************************)
(* C28.  In every state the completed set is a prefix of the stage order   *)
(* (a stage is completed only if every earlier stage is), and the stage    *)
(* shown is a completed stage or the first stage not yet completed.        *)
(***************************************************************************)
C28_CompletedIsPrefix ==
    /\ \A s \in completed :
          \A k \in 1..(IndexOf(s) - 1) : STAGE_ORDER[k] \in completed
    /\ \/ stage \in completed
       \/ IndexOf(stage) = Cardinality(completed) + 1

\* a completed stage is shown again while a later stage is completed as well
C28_Witness ==
    /\ variant = "web"
    /\ stage = "bac_resolution"
    /\ completed = {"pr_received", "bac_resolution", "release_canvass"}

(***************************************************************************)
(* C29.  In every state the dates of a division assignment agree with its  *)
(* status: pending has neither date, released has a release date and no    *)
(* return date, returned has both dates.                                   *)
(***************************************************************************)
C29_DatesAgreeWithStatus ==
    \A i \in DOMAIN divisions :
        LET d == divisions[i] IN
        /\ d.status = "pending"  => d.releaseDate = "" /\ d.returnDate = ""
        /\ d.status = "released" => d.releaseDate # "" /\ d.returnDate = ""
        /\ d.status = "returned" => d.releaseDate # "" /\ d.returnDate # ""

\* one division is returned and another is still out
C29_Witness ==
    /\ stage = "collect_canvass"
    /\ divisions[1].status = "returned"
    /\ divisions[1].returnDate = TODAY
    /\ divisions[2].status = "released"
    /\ divisions[2].releaseDate = TODAY

(***************************************************************************)
(* C30.  When aaa_preparation is entered every entry of the abstract       *)
(* roster is unsigned, whatever the resolution roster holds; signing an    *)
(* abstract entry changes that entry only and leaves the resolution        *)
(* roster, the division assignments, the supplier quotes and the stage as  *)
(* they are; every signatory of an emitted summary's bac_members is        *)
(* signed.                                                                 *)
(***************************************************************************)
C30_AbstractRosterApart ==
    [][ /\ (stage # "aaa_preparation" /\ stage' = "aaa_preparation") =>
              /\ Len(aaaMembers') = Len(bacMembers)
              /\ \A i \in DOMAIN aaaMembers' : ~aaaMembers'[i].signed
        /\ (stage = "aaa_preparation" /\ stage' = "aaa_preparation"
            /\ aaaMembers' # aaaMembers) =>
              /\ \E idx \in DOMAIN aaaMembers :
                    /\ aaaMembers'[idx].signed
                    /\ \A k \in DOMAIN aaaMembers \ {idx} : aaaMembers'[k] = aaaMembers[k]
              /\ DOMAIN aaaMembers' = DOMAIN aaaMembers
              /\ UNCHANGED <<bacMembers, divisions, suppliers, stage>>
        /\ \A e \in 1..Len(emitted') :
              \A i \in DOMAIN emitted'[e].bac_members :
                  emitted'[e].bac_members[i].signed ]_vars

\* the summary was emitted after the second abstract signatory signed
C30_Witness ==
    /\ stage = "aaa_preparation"
    /\ allSigned(aaaMembers)
    /\ allSigned(bacMembers)
    /\ Len(emitted) = 1
    /\ allSigned(emitted[1].bac_members)

====
